---- MODULE Spec2Model ----
(***************************************************************************)
(* Vessel state synchronisation of the AIS viewer:                         *)
(*   - VesselProvider (contexts/VesselContext): the vessels map and the    *)
(*     lastServerTime cursor with addVessel, updateVessel,                 *)
(*     updateMultipleVessels, removeStaleVessels, clearAll;                *)
(*   - VesselMap (components/VesselMap): zoom, bbox, the polling           *)
(*     interval, fetchVessels and handleRegionDidChange;                   *)
(*   - utils/geohash: encodeGeohash and calculateGeohashes.                *)
(*                                                                         *)
(* Times are milliseconds counted from 2024-01-01T00:00:00Z (the epoch     *)
(* offset is dropped so that every value fits a 32-bit integer).           *)
(* Coordinates are integers in units of 1/25600 degree, in which both the  *)
(* sampling step 0.045 (= 1152) and the side of a precision-5 geohash cell *)
(* (180/4096 = 360/8192 degree = 1125) are exact.                          *)
(***************************************************************************)
EXTENDS Integers, Sequences, FiniteSets, TLC

VARIABLES
    vessels,            \* VesselProvider: Map<number, Vessel>
    lastServerTime,     \* VesselProvider: string | null
    zoom,               \* VesselMap: useState(DEFAULT_MAP_ZOOM)
    bbox,               \* VesselMap: useState<Bbox | null>(null)
    isLoading,          \* VesselMap: useState(false)
    error,              \* VesselMap: useState<string | null>(null)
    pollingIntervalRef, \* VesselMap: useRef, the id of an interval or 0 (null)
    intervals,          \* the runtime's live setInterval timers, by id
    inflight,           \* fetches awaiting VesselApiService.fetchVessels,
                        \* in the order they were issued
    handlers,           \* handleRegionDidChange calls suspended at an await
    mapView,            \* what the native map shows: visible bounds and zoom
    now,                \* Date.now()
    lastOp,             \* the operation that produced the current state
    snapshot,           \* the Map a consumer got from useVessels().vessels
    box,                \* calculateGeohashes: the rectangle passed in
    geohashes           \* calculateGeohashes: the value returned

storeVars == <<vessels, lastServerTime>>
mapVars   == <<zoom, bbox, isLoading, error, pollingIntervalRef, intervals,
               inflight, handlers, mapView>>
geoVars   == <<box, geohashes>>
vars      == <<vessels, lastServerTime, zoom, bbox, isLoading, error,
               pollingIntervalRef, intervals, inflight, handlers, mapView,
               now, lastOp, snapshot, box, geohashes>>

\* null of a string-valued state
Null == "null"

\* null of bbox (a Bbox is <<minLon, minLat, maxLon, maxLat>>)
NoBbox == <<>>

\* null of pollingIntervalRef.current (the ids of timers are positive)
NoInterval == 0

-----------------------------------------------------------------------------
(* config.ts *)

POLL_INTERVAL_MS == 10000

MIN_ZOOM_LEVEL == 12

DEFAULT_MAP_ZOOM == 10

STALE_VESSEL_TIMEOUT_MS == 120000

-----------------------------------------------------------------------------
(* Bounds of the model *)

\* number of clock steps the model lets pass
MaxClockSteps == 2

\* longest vessel list of one call or response
MaxBatch == 2

\* the clock advances by a poll interval at a time
ClockStep == POLL_INTERVAL_MS

\* Date.now() when the provider is created: 2024-01-01T00:02:00Z
StartTime == STALE_VESSEL_TIMEOUT_MS

EndTime == StartTime + MaxClockSteps * ClockStep

-----------------------------------------------------------------------------
(* Vessel records and their timestamps *)

\* new Date(s).getTime() of a string that is not a date
NaN == -1

\* The last_updated strings the server sends, with the instant each denotes.
\* "not-a-date" stands for any string Date cannot parse.
EpochMs ==
    [s \in {"2024-01-01T00:00:10Z", "2024-01-01T00:00:20Z"} |->
        IF s = "2024-01-01T00:00:10Z" THEN 10000 ELSE 20000]

Timestamps == DOMAIN EpochMs \cup {"not-a-date"}

\* new Date(s).getTime()
DateGetTime(s) == IF s \in DOMAIN EpochMs THEN EpochMs[s] ELSE NaN

\* a > b on JavaScript numbers: false as soon as one side is NaN
JsGreater(a, b) == a # NaN /\ b # NaN /\ a > b

MMSI == {100, 200}

Vessel == [mmsi : MMSI, last_updated : Timestamps]

\* the vessel lists of at most MaxBatch elements
VesselLists == UNION {[1..n -> Vessel] : n \in 0..MaxBatch}

EmptyMap == <<>>

\* Map.prototype.set on a copy
MapSet(m, k, v) == [x \in DOMAIN m \cup {k} |-> IF x = k THEN v ELSE m[x]]

-----------------------------------------------------------------------------
(* VesselProvider: the Map objects *)

\* The Map objects of one setVessels call: prev is the object the state
\* holds when the call runs (prevVessels) and new the object the call makes,
\* each with the entries it has when the call returns; result names the
\* object the state holds from then on.

\* no new object: the updater writes its entries into prevVessels and
\* returns it
newMap_InPlace(prevVessels, entries) ==
    [prev |-> entries, new |-> EmptyMap, result |-> "prev"]

\* const newVessels = new Map(...), filled by the call with entries and
\* returned: prevVessels keeps the entries it had
newMap(prevVessels, entries) ==
    [prev |-> prevVessels, new |-> entries, result |-> "new"]

\* no consumer holds a Map
NoSnapshot == [object |-> "none", saw |-> EmptyMap, entries |-> EmptyMap]

-----------------------------------------------------------------------------
(* VesselProvider: the state updaters *)

addVessel(prevVessels, vessel) == MapSet(prevVessels, vessel.mmsi, vessel)

updateVessel(prevVessels, vessel) == MapSet(prevVessels, vessel.mmsi, vessel)

RECURSIVE forEachSet(_, _)
\* vessels.forEach(vessel => newVessels.set(vessel.mmsi, vessel))
forEachSet(newVessels, list) ==
    IF list = <<>> THEN newVessels
    ELSE forEachSet(MapSet(newVessels, Head(list).mmsi, Head(list)), Tail(list))

\* a bulk merge that does not overwrite a vessel already in the map
updateMultipleVessels_KeepExisting(prevVessels, list) ==
    LET merged == forEachSet(prevVessels, list)
    IN  [k \in DOMAIN merged |->
            IF k \in DOMAIN prevVessels THEN prevVessels[k] ELSE merged[k]]

updateMultipleVessels(prevVessels, list) == forEachSet(prevVessels, list)

\* the test written vesselTime >= staleThreshold
isFresh_Inclusive(vessel, staleThreshold) ==
    LET vesselTime == DateGetTime(vessel.last_updated)
    IN  vesselTime # NaN /\ vesselTime >= staleThreshold

\* the test written as the negation of vesselTime <= staleThreshold
isFresh_NotStale(vessel, staleThreshold) ==
    LET vesselTime == DateGetTime(vessel.last_updated)
    IN  ~(vesselTime # NaN /\ vesselTime <= staleThreshold)

\* the test with the comparison turned round
isFresh_Reversed(vessel, staleThreshold) ==
    JsGreater(staleThreshold, DateGetTime(vessel.last_updated))

\* the test of the forEach in removeStaleVessels
isFresh(vessel, staleThreshold) ==
    JsGreater(DateGetTime(vessel.last_updated), staleThreshold)

removeStaleVessels(prevVessels, dateNow) ==
    LET staleThreshold == dateNow - STALE_VESSEL_TIMEOUT_MS
        kept == {mmsi \in DOMAIN prevVessels :
                    isFresh(prevVessels[mmsi], staleThreshold)}
    IN  [mmsi \in kept |-> prevVessels[mmsi]]

\* a clearAll that forgets setLastServerTime(null)
clearAll_KeepCursor(store) ==
    [vessels |-> EmptyMap, lastServerTime |-> store.lastServerTime]

\* clearAll: both setters, as one state
clearAll(store) == [vessels |-> EmptyMap, lastServerTime |-> Null]

theStore == [vessels |-> vessels, lastServerTime |-> lastServerTime]

-----------------------------------------------------------------------------
(* The instants and the server times of the model *)

ClockTimes == {StartTime + k * ClockStep : k \in 0..MaxClockSteps}

\* response.server_time: opaque to the client, only stored and sent back
ServerTimes == {"2024-01-01T00:02:00Z", "2024-01-01T00:02:10Z"}

-----------------------------------------------------------------------------
(* The state after construction: VesselProvider and VesselMap mounted, the  *)
(* camera at DEFAULT_MAP_ZOOM, no region change delivered yet               *)

Bounds == {<<<<-3136000, 965120>>, <<-3130880, 967680>>>>,
           <<<<-3133440, 966400>>, <<-3128320, 968960>>>>}

InitialBounds == <<<<-3136000, 965120>>, <<-3130880, 967680>>>>

Init ==
    /\ vessels = EmptyMap
    /\ lastServerTime = Null
    /\ zoom = DEFAULT_MAP_ZOOM
    /\ bbox = NoBbox
    /\ isLoading = FALSE
    /\ error = Null
    /\ pollingIntervalRef = NoInterval
    /\ intervals = <<>>
    /\ inflight = <<>>
    /\ handlers = <<>>
    /\ mapView = [bounds |-> InitialBounds, zoom |-> DEFAULT_MAP_ZOOM]
    /\ now = StartTime
    /\ lastOp = [op |-> "init"]
    /\ snapshot = NoSnapshot
    /\ box = NoBbox
    /\ geohashes = {}

-----------------------------------------------------------------------------
(* The VesselProvider alone: its context value called by any consumer *)

\* setVessels, m the Map objects of the call: the state holds the object the
\* call returned; a consumer that held prevVessels still holds that object,
\* with the entries the call left in it
setVessels(m) ==
    /\ vessels' = m[m.result]
    /\ snapshot' =
         IF snapshot.object = "state"
         THEN [snapshot EXCEPT
                 !.entries = m.prev,
                 !.object = IF m.result = "prev" THEN "state" ELSE "old"]
         ELSE snapshot

AddVessel(vessel) ==
    /\ setVessels(newMap(vessels, addVessel(vessels, vessel)))
    /\ lastOp' = [op |-> "addVessel", vessel |-> vessel]
    /\ UNCHANGED <<lastServerTime, mapVars, now, geoVars>>

UpdateVessel(vessel) ==
    /\ setVessels(newMap(vessels, updateVessel(vessels, vessel)))
    /\ lastOp' = [op |-> "updateVessel", vessel |-> vessel]
    /\ UNCHANGED <<lastServerTime, mapVars, now, geoVars>>

UpdateMultipleVessels(list) ==
    /\ setVessels(newMap(vessels, updateMultipleVessels(vessels, list)))
    /\ lastOp' = [op |-> "updateMultipleVessels", list |-> list]
    /\ UNCHANGED <<lastServerTime, mapVars, now, geoVars>>

RemoveStaleVessels ==
    /\ setVessels(newMap(vessels, removeStaleVessels(vessels, now)))
    /\ lastOp' = [op |-> "removeStaleVessels", prev |-> vessels]
    /\ UNCHANGED <<lastServerTime, mapVars, now, geoVars>>

ClearAll ==
    /\ setVessels(newMap(vessels, clearAll(theStore).vessels))
    /\ lastServerTime' = clearAll(theStore).lastServerTime
    /\ lastOp' = [op |-> "clearAll", prev |-> theStore]
    /\ UNCHANGED <<mapVars, now, geoVars>>

SetLastServerTime(time) ==
    /\ lastServerTime' = time
    /\ lastOp' = [op |-> "setLastServerTime", time |-> time]
    /\ UNCHANGED <<vessels, mapVars, now, geoVars, snapshot>>

\* time passes between two calls
StoreClock ==
    /\ now < EndTime
    /\ now' = now + ClockStep
    /\ lastOp' = [op |-> "clock"]
    /\ UNCHANGED <<storeVars, mapVars, geoVars, snapshot>>

NextStore ==
    \/ \E vessel \in Vessel : AddVessel(vessel)
    \/ \E vessel \in Vessel : UpdateVessel(vessel)
    \/ \E list \in VesselLists : UpdateMultipleVessels(list)
    \/ RemoveStaleVessels
    \/ ClearAll
    \/ \E time \in ServerTimes : SetLastServerTime(time)
    \/ StoreClock

SpecStore == Init /\ [][NextStore]_vars

\* a consumer renders: const { vessels } = useVessels() hands it the Map the
\* state holds, which it keeps
UseVessels ==
    /\ snapshot' = [object |-> "state", saw |-> vessels, entries |-> vessels]
    /\ lastOp' = [op |-> "useVessels"]
    /\ UNCHANGED <<storeVars, mapVars, now, geoVars>>

NextSnapshot ==
    \/ NextStore
    \/ UseVessels

\* the provider with a consumer of its context
SpecSnapshot == Init /\ [][NextSnapshot]_vars

-----------------------------------------------------------------------------------------------------------------------------------------------------
(* VesselMap: fetchVessels, handleRegionDidChange and the polling effect   *)
(*                                                                         *)
(* One step is one task of the event loop: the code that runs between two  *)
(* awaits, the render its state updates cause (the updates of one task are *)
(* batched) and the polling effect of that render. The component stays     *)
(* mounted, so mapRef.current is set and getVisibleBounds() yields bounds. *)

\* most fetches in flight at once
MaxInFlight == 2

\* most handleRegionDidChange calls suspended at once
MaxHandlers == 1

\* longest vessel list of a response
MaxResponse == 1

\* what mapRef.current.getZoom() may report; 0 is the one falsy zoom
ZoomLevels == {0, DEFAULT_MAP_ZOOM, MIN_ZOOM_LEVEL, MIN_ZOOM_LEVEL + 1}

Views == [bounds : Bounds, zoom : ZoomLevels]

\* newBbox of handleRegionDidChange, from [[minLon, minLat], [maxLon, maxLat]]
newBbox(bounds) == <<bounds[1][1], bounds[1][2], bounds[2][1], bounds[2][2]>>

\* the values a fetchVessels callback closes over: useCallback deps
fetchVesselsClosure(b, z, cursor) ==
    [bbox |-> b, zoom |-> z, lastServerTime |-> cursor]

\* fetchVessels goes past its first test
Eligible(closure) ==
    ~(closure.bbox = NoBbox \/ closure.zoom < MIN_ZOOM_LEVEL)

\* the call VesselApiService.fetchVessels(bbox, Math.round(zoom),
\* lastServerTime || undefined). Only `since` is kept (Null when absent):
\* bbox and zoom go to the server, whose answer the model leaves open.
\* superseded is history: a request issued later has already been answered
\* and its answer applied.
Request(closure) ==
    [since |-> closure.lastServerTime, superseded |-> FALSE]

\* the vessels the server reports in the model: one that reaches the stale
\* timeout two clock steps after StartTime, one a single step after it
ReportedVessels ==
    {[mmsi |-> 100, last_updated |-> "2024-01-01T00:00:20Z"],
     [mmsi |-> 200, last_updated |-> "2024-01-01T00:00:10Z"]}

\* what the server may answer
Responses ==
    [vessels : UNION {[1..n -> ReportedVessels] : n \in 0..MaxResponse},
     server_time : ServerTimes]

\* a cursor is written only with a non-empty list
fetchVesselsResolved_SkipEmpty(store, response) ==
    IF Len(response.vessels) > 0
    THEN [vessels |-> updateMultipleVessels(store.vessels, response.vessels),
          lastServerTime |-> response.server_time]
    ELSE store

\* fetchVessels after the await: the store it leaves
fetchVesselsResolved(store, response) ==
    [vessels |-> IF Len(response.vessels) > 0
                 THEN updateMultipleVessels(store.vessels, response.vessels)
                 ELSE store.vessels,
     lastServerTime |-> response.server_time]

\* a catch block that also drops the cursor
fetchVesselsRejected_DropCursor(store) ==
    [vessels |-> store.vessels, lastServerTime |-> Null,
     error |-> "Failed to fetch vessels"]

\* fetchVessels in its catch block: the store is not touched
fetchVesselsRejected(store) ==
    [vessels |-> store.vessels, lastServerTime |-> store.lastServerTime,
     error |-> "Failed to fetch vessels"]

\* fetchVessels() up to its await: nothing if the closure is not eligible,
\* else setIsLoading(true), setError(null) and the request
fetchVessels(closure, ui) ==
    IF Eligible(closure)
    THEN [ui EXCEPT !.inflight = Append(@, Request(closure)),
                    !.isLoading = TRUE,
                    !.error = Null]
    ELSE ui

\* clearInterval(id) on the runtime's timers
clearInterval(timers, id) == [t \in DOMAIN timers \ {id} |-> timers[t]]

\* the id setInterval hands out: one no live timer has
freshId(timers) == CHOOSE id \in 1..(Cardinality(DOMAIN timers) + 1) :
                      id \notin DOMAIN timers

\* setInterval(() => { fetchVessels(); removeStaleVessels() },
\* POLL_INTERVAL_MS), the id kept in pollingIntervalRef.current
setInterval(closure, ui) ==
    LET id == freshId(ui.timers) IN
    [ui EXCEPT !.timers = MapSet(@, id, [fetch |-> closure,
                                         remaining |-> POLL_INTERVAL_MS]),
               !.ref = id]

\* the ref is nulled, the interval is not cleared
stopPolling_KeepTimer(ui) == [ui EXCEPT !.ref = NoInterval]

\* if (pollingIntervalRef.current) { clearInterval(...); ... = null }
stopPolling(ui) ==
    IF ui.ref # NoInterval
    THEN [ui EXCEPT !.timers = clearInterval(@, ui.ref), !.ref = NoInterval]
    ELSE ui

\* the effect has no cleanup: a re-run sets a second interval next to the
\* one its previous run set
pollingEffect_NoCleanup(changed, ui) ==
    LET closure == fetchVesselsClosure(ui.bbox, ui.zoom, ui.lastServerTime) IN
    IF ~changed THEN ui
    ELSE IF ui.zoom < MIN_ZOOM_LEVEL \/ ui.bbox = NoBbox
    THEN stopPolling(ui)
    ELSE setInterval(closure, fetchVessels(closure, ui))

\* the effect sets the interval and leaves the first fetch to its first tick
pollingEffect_NoImmediateFetch(changed, ui) ==
    LET closure == fetchVesselsClosure(ui.bbox, ui.zoom, ui.lastServerTime) IN
    IF ~changed THEN ui
    ELSE IF ui.zoom < MIN_ZOOM_LEVEL \/ ui.bbox = NoBbox
    THEN stopPolling(ui)
    ELSE setInterval(closure, stopPolling(ui))

\* The polling effect, run after a render in which one of its dependencies
\* [bbox, zoom, fetchVessels, removeStaleVessels] changed (fetchVessels changes
\* with bbox, zoom and lastServerTime). The cleanup of the previous run, or
\* the first branch of this one, clears the interval; the body then either
\* returns or calls fetchVessels() of this render and sets a new interval.
\* ui is what the render was given.
pollingEffect(changed, ui) ==
    LET closure == fetchVesselsClosure(ui.bbox, ui.zoom, ui.lastServerTime) IN
    IF ~changed THEN ui
    ELSE IF ui.zoom < MIN_ZOOM_LEVEL \/ ui.bbox = NoBbox
    THEN stopPolling(ui)
    ELSE setInterval(closure, fetchVessels(closure, stopPolling(ui)))

\* the component state a step hands to the render
theUi ==
    [zoom |-> zoom, bbox |-> bbox, lastServerTime |-> lastServerTime,
     ref |-> pollingIntervalRef, timers |-> intervals, inflight |-> inflight,
     isLoading |-> isLoading, error |-> error]

\* the render commits what the effect left
Commit(ui) ==
    /\ Len(ui.inflight) <= MaxInFlight
    /\ zoom' = ui.zoom
    /\ bbox' = ui.bbox
    /\ lastServerTime' = ui.lastServerTime
    /\ pollingIntervalRef' = ui.ref
    /\ intervals' = ui.timers
    /\ inflight' = ui.inflight
    /\ isLoading' = ui.isLoading
    /\ error' = ui.error

Remove(seq, i) == SubSeq(seq, 1, i - 1) \o SubSeq(seq, i + 1, Len(seq))

\* the requests still in flight once request i is answered; those issued
\* before it are marked as overtaken
Answered(seq, i) ==
    [j \in 1..(Len(seq) - 1) |->
        IF j < i THEN [seq[j] EXCEPT !.superseded = TRUE] ELSE seq[j + 1]]

\* the controller is Active: viewport known and zoom at or above the threshold
\* (the test of the polling effect fails)
Active == zoom >= MIN_ZOOM_LEVEL /\ bbox # NoBbox

\* The map shows another region and delivers onRegionDidChange: the handler
\* runs up to its first await. A handler is marked as overlapped when it is
\* suspended while another one is; its bounds are not read before
\* getVisibleBounds resolves.
handleRegionDidChange(view) ==
    /\ mapView' = view
    /\ handlers' =
         Append([j \in 1..Len(handlers) |->
                    [handlers[j] EXCEPT !.overlapped = TRUE]],
                [pc |-> "getVisibleBounds", bounds |-> InitialBounds,
                 overlapped |-> handlers # <<>>])
    /\ lastOp' = [op |-> "regionDidChange"]
    /\ UNCHANGED <<storeVars, zoom, bbox, isLoading, error, pollingIntervalRef,
                   intervals, inflight, now, geoVars, snapshot>>

\* a region change with no more than MaxHandlers handlers suspended
RegionDidChange(view) ==
    /\ Len(handlers) < MaxHandlers
    /\ handleRegionDidChange(view)

\* await getVisibleBounds() resolves; the handler calls getZoom()
GetVisibleBoundsResolved(i) ==
    /\ handlers[i].pc = "getVisibleBounds"
    /\ handlers' = [handlers EXCEPT
                      ![i] = [@ EXCEPT !.pc = "getZoom",
                                       !.bounds = mapView.bounds]]
    /\ lastOp' = [op |-> "getVisibleBounds"]
    /\ UNCHANGED <<storeVars, zoom, bbox, isLoading, error, pollingIntervalRef,
                   intervals, inflight, mapView, now, geoVars, snapshot>>

\* await getZoom() resolves; the rest of handleRegionDidChange runs, then the
\* render and the polling effect
GetZoomResolved(i) ==
    /\ handlers[i].pc = "getZoom"
    /\ handlers' = Remove(handlers, i)
    /\ LET currentZoom == mapView.zoom
           cleared == currentZoom < MIN_ZOOM_LEVEL
           store == IF cleared THEN clearAll(theStore) ELSE theStore
       IN  IF currentZoom = 0
           THEN /\ lastOp' = [op |-> "regionIgnored",
                              overlapped |-> handlers[i].overlapped]
                /\ UNCHANGED <<storeVars, zoom, bbox, isLoading, error,
                               pollingIntervalRef, intervals, inflight>>
           ELSE /\ vessels' = store.vessels
                /\ Commit(pollingEffect(TRUE,
                     [theUi EXCEPT !.zoom = currentZoom,
                                   !.bbox = newBbox(handlers[i].bounds),
                                   !.lastServerTime = store.lastServerTime]))
                /\ lastOp' = [op |-> "regionCommitted", cleared |-> cleared,
                              wasActive |-> Active,
                              discarded |-> store # theStore,
                              overlapped |-> handlers[i].overlapped]
    /\ UNCHANGED <<mapView, now, geoVars, snapshot>>

\* VesselApiService.fetchVessels resolves for the i-th request in flight
FetchResolved(i, response) ==
    /\ LET store == fetchVesselsResolved(theStore, response) IN
       /\ vessels' = store.vessels
       /\ Commit(pollingEffect(store.lastServerTime # lastServerTime,
            [theUi EXCEPT !.lastServerTime = store.lastServerTime,
                          !.inflight = Answered(inflight, i),
                          !.isLoading = FALSE]))
    /\ lastOp' = [op |-> "fetchResolved", response |-> response,
                  superseded |-> inflight[i].superseded]
    /\ UNCHANGED <<handlers, mapView, now, geoVars, snapshot>>

\* VesselApiService.fetchVessels rejects for the i-th request in flight
FetchRejected(i) ==
    /\ LET store == fetchVesselsRejected(theStore) IN
       /\ vessels' = store.vessels
       /\ Commit(pollingEffect(store.lastServerTime # lastServerTime,
            [theUi EXCEPT !.lastServerTime = store.lastServerTime,
                          !.inflight = Remove(inflight, i),
                          !.error = store.error,
                          !.isLoading = FALSE]))
    /\ lastOp' = [op |-> "fetchRejected"]
    /\ UNCHANGED <<handlers, mapView, now, geoVars, snapshot>>

\* interval id fires: fetchVessels() of the closure it was set with, then
\* removeStaleVessels(); the interval runs on
Tick(id) ==
    /\ intervals[id].remaining = 0
    /\ Commit(fetchVessels(intervals[id].fetch,
         [theUi EXCEPT !.timers[id].remaining = POLL_INTERVAL_MS]))
    /\ vessels' = removeStaleVessels(vessels, now)
    /\ lastOp' = [op |-> "tick"]
    /\ UNCHANGED <<handlers, mapView, now, geoVars, snapshot>>

\* time passes, up to the instant the next interval is due. From EndTime on
\* every timestamp of the model is stale and stays so: the clock is no
\* longer advanced, the intervals still run down.
Clock ==
    /\ \A id \in DOMAIN intervals : intervals[id].remaining >= ClockStep
    /\ now' = IF now < EndTime THEN now + ClockStep ELSE now
    /\ intervals' = [id \in DOMAIN intervals |->
                        [intervals[id] EXCEPT !.remaining = @ - ClockStep]]
    /\ lastOp' = [op |-> "clock"]
    /\ UNCHANGED <<storeVars, zoom, bbox, isLoading, error, pollingIntervalRef,
                   inflight, handlers, mapView, geoVars, snapshot>>

Next ==
    \/ \E view \in Views : RegionDidChange(view)
    \/ \E i \in 1..Len(handlers) : GetVisibleBoundsResolved(i)
    \/ \E i \in 1..Len(handlers) : GetZoomResolved(i)
    \/ \E i \in 1..Len(inflight), response \in Responses :
          FetchResolved(i, response)
    \/ \E i \in 1..Len(inflight) : FetchRejected(i)
    \/ \E id \in DOMAIN intervals : Tick(id)
    \/ Clock

Spec == Init /\ [][Next]_vars

\* A burst of region changes: one more handler may be suspended, and the
\* native calls resolve well within a poll interval, so that no time passes
\* and no interval fires.
MaxOverlap == MaxHandlers + 1

OverlappingRegionDidChange(view) ==
    /\ Len(handlers) < MaxOverlap
    /\ handleRegionDidChange(view)

NextOverlap ==
    \/ \E view \in Views : OverlappingRegionDidChange(view)
    \/ \E i \in 1..Len(handlers) : GetVisibleBoundsResolved(i)
    \/ \E i \in 1..Len(handlers) : GetZoomResolved(i)
    \/ \E i \in 1..Len(inflight), response \in Responses :
          FetchResolved(i, response)
    \/ \E i \in 1..Len(inflight) : FetchRejected(i)

SpecOverlap == Init /\ [][NextOverlap]_vars

\* What the runtime guarantees: time passes, an interval that is due and not
\* cleared fires, a native call of the map resolves and a request in flight
\* is answered or fails.
Fairness ==
    /\ WF_vars(Clock)
    /\ WF_vars(\E id \in DOMAIN intervals : Tick(id))
    /\ WF_vars(\E i \in 1..Len(handlers) : GetVisibleBoundsResolved(i))
    /\ WF_vars(\E i \in 1..Len(handlers) : GetZoomResolved(i))
    /\ WF_vars(\E i \in 1..Len(inflight) :
                  \/ FetchRejected(i)
                  \/ \E response \in Responses : FetchResolved(i, response))

FairSpec == Spec /\ Fairness

-----------------------------------------------------------------------------
(* utils/geohash: encodeGeohash and calculateGeohashes *)

\* one degree, in the unit of the coordinates
Degree == 25 * 1024

\* const latStep = 0.045, const lonStep = 0.045
latStep == (45 * Degree) \div 1000

lonStep == (45 * Degree) \div 1000

\* precision: number = 5
DefaultPrecision == 5

BASE32 == <<"0", "1", "2", "3", "4", "5", "6", "7", "8", "9", "b", "c", "d",
            "e", "f", "g", "h", "j", "k", "m", "n", "p", "q", "r", "s", "t",
            "u", "v", "w", "x", "y", "z">>

RECURSIVE encodeBits(_, _, _, _, _, _, _, _)
\* the loop of geohash.encode from bit bitsTotal up to n bits: even bits
\* halve the longitude interval, odd bits the latitude interval; a coordinate
\* above the midpoint gives 1 and raises the lower end, any other gives 0
encodeBits(latitude, longitude, bitsTotal, n, minLat, maxLat, minLon, maxLon) ==
    IF bitsTotal = n THEN <<>>
    ELSE IF bitsTotal % 2 = 0
    THEN LET mid == (maxLon + minLon) \div 2 IN
         IF longitude > mid
         THEN <<1>> \o encodeBits(latitude, longitude, bitsTotal + 1,
                                  n, minLat, maxLat, mid, maxLon)
         ELSE <<0>> \o encodeBits(latitude, longitude, bitsTotal + 1,
                                  n, minLat, maxLat, minLon, mid)
    ELSE LET mid == (maxLat + minLat) \div 2 IN
         IF latitude > mid
         THEN <<1>> \o encodeBits(latitude, longitude, bitsTotal + 1,
                                  n, mid, maxLat, minLon, maxLon)
         ELSE <<0>> \o encodeBits(latitude, longitude, bitsTotal + 1,
                                  n, minLat, mid, minLon, maxLon)

\* the character of five bits: BASE32_CODES[hash_value]
base32Char(bits, c) ==
    BASE32[1 + 16 * bits[5 * c - 4] + 8 * bits[5 * c - 3] + 4 * bits[5 * c - 2]
             + 2 * bits[5 * c - 1] + bits[5 * c]]

\* encodeGeohash = geohash.encode(latitude, longitude, precision): the hash
\* as the sequence of its characters
encodeGeohash(latitude, longitude, precision) ==
    LET bits == encodeBits(latitude, longitude, 0, 5 * precision,
                           -90 * Degree, 90 * Degree,
                           -180 * Degree, 180 * Degree)
    IN  [c \in 1..precision |-> base32Char(bits, c)]

\* a loop `for (x = min; x < max; x += step)`: the upper end left out
loopValues_Exclusive(min, max, step) ==
    IF min < max THEN {min + i * step : i \in 0..((max - min - 1) \div step)}
    ELSE {}

\* the values a loop `for (x = min; x <= max; x += step)` takes
loopValues(min, max, step) ==
    IF min <= max THEN {min + i * step : i \in 0..((max - min) \div step)}
    ELSE {}

\* the test of the inner loop of calculateGeohashes
inDomain(lat, lon) ==
    /\ lat >= -90 * Degree /\ lat <= 90 * Degree
    /\ lon >= -180 * Degree /\ lon <= 180 * Degree

\* calculateGeohashes: the Set the grid of samples fills, as returned by
\* Array.from (the order of the array is the order of insertion; the model
\* keeps the set). The sums lat += latStep are exact here.
calculateGeohashes(minLon, minLat, maxLon, maxLat, precision) ==
    {encodeGeohash(lat, lon, precision) :
        <<lat, lon>> \in {p \in loopValues(minLat, maxLat, latStep)
                                \X loopValues(minLon, maxLon, lonStep) :
                            inDomain(p[1], p[2])}}

\* The rectangles of the model, around calculateGeohashes(-122.5, 37.7,
\* -122.3, 37.8): latitudes 37.7, 37.7046875 (just under the upper edge of its
\* cell), 37.75 and 37.8; longitudes -122.5, -122.4 and -122.3.
LatInputs == {965120, 965240, 966400, 967680}

LonInputs == {-3136000, -3133440, -3130880}

Boxes == LonInputs \X LatInputs \X LonInputs \X LatInputs

InitGeo ==
    /\ vessels = EmptyMap
    /\ lastServerTime = Null
    /\ zoom = DEFAULT_MAP_ZOOM
    /\ bbox = NoBbox
    /\ isLoading = FALSE
    /\ error = Null
    /\ pollingIntervalRef = NoInterval
    /\ intervals = <<>>
    /\ inflight = <<>>
    /\ handlers = <<>>
    /\ mapView = [bounds |-> InitialBounds, zoom |-> DEFAULT_MAP_ZOOM]
    /\ now = StartTime
    /\ lastOp = [op |-> "init"]
    /\ snapshot = NoSnapshot
    /\ box \in Boxes
    /\ geohashes = {}

\* a call calculateGeohashes(minLon, minLat, maxLon, maxLat) at the default
\* precision
CalculateGeohashes ==
    /\ geohashes' = calculateGeohashes(box[1], box[2], box[3], box[4],
                                       DefaultPrecision)
    /\ lastOp' = [op |-> "calculateGeohashes"]
    /\ UNCHANGED <<storeVars, mapVars, now, box, snapshot>>

NextGeo == CalculateGeohashes

SpecGeo == InitGeo /\ [][NextGeo]_vars

-----------------------------------------------------------------------------
(* Properties of the VesselProvider *)

Parsable(vessel) == vessel.last_updated \in DOMAIN EpochMs

\* now - last_updated of a vessel whose timestamp parses
Age(vessel, t) == t - EpochMs[vessel.last_updated]

\* the positions of list that hold a record for identifier k
Positions(list, k) == {i \in 1..Len(list) : list[i].mmsi = k}

Last(S) == CHOOSE i \in S : \A j \in S : j <= i

\* C5: after any merge (addVessel, updateVessel) or bulk merge
\* (updateMultipleVessels) every entry of the map is keyed by the identifier
\* of its record, so there is one record per identifier at most; the record of
\* an identifier that was merged is the last one merged for it, whatever the
\* timestamps, and every other entry is what it was.
C5_ReplaceByKey ==
    [][/\ \A k \in DOMAIN vessels' : vessels'[k].mmsi = k
       /\ lastOp'.op \in {"addVessel", "updateVessel"} =>
            /\ DOMAIN vessels' = DOMAIN vessels \cup {lastOp'.vessel.mmsi}
            /\ \A k \in DOMAIN vessels' :
                 vessels'[k] = IF k = lastOp'.vessel.mmsi THEN lastOp'.vessel
                               ELSE vessels[k]
       /\ lastOp'.op = "updateMultipleVessels" =>
            LET list == lastOp'.list IN
            /\ DOMAIN vessels' =
                 DOMAIN vessels \cup {list[i].mmsi : i \in 1..Len(list)}
            /\ \A k \in DOMAIN vessels' :
                 vessels'[k] = IF Positions(list, k) # {}
                               THEN list[Last(Positions(list, k))]
                               ELSE vessels[k]
    ]_vars

\* a bulk merge of two different records of one identifier onto a map that
\* already held that identifier: the map holds the second record
C5_Witness ==
    /\ lastOp.op = "updateMultipleVessels"
    /\ Len(lastOp.list) = 2
    /\ lastOp.list[1].mmsi = lastOp.list[2].mmsi
    /\ lastOp.list[1] # lastOp.list[2]
    /\ vessels[lastOp.list[2].mmsi] = lastOp.list[2]
    /\ DOMAIN vessels = MMSI

C7_ResetIdempotent ==
    [][lastOp'.op = "clearAll" =>
        /\ vessels' = EmptyMap
        /\ lastServerTime' = Null
        /\ clearAll(theStore') = theStore'
        /\ clearAll(clearAll(theStore)) = clearAll(theStore)
        /\ lastOp.op = "clearAll" => storeVars' = storeVars
    ]_vars

\* a clearAll has run on a store that held two vessels and a cursor
C7_Witness ==
    /\ lastOp.op = "clearAll"
    /\ DOMAIN lastOp.prev.vessels = MMSI
    /\ lastOp.prev.lastServerTime \in ServerTimes
    /\ vessels = EmptyMap
    /\ lastServerTime = Null

\* C8: after a sweep, whatever the clock, the map holds no vessel whose
\* last_updated does not parse.
C8_UnparsableNeverRetained ==
    [][lastOp'.op = "removeStaleVessels" =>
        \A k \in DOMAIN vessels' : Parsable(vessels'[k])
    ]_vars

\* a sweep of a map that held a vessel with an unparsable last_updated next
\* to a fresh one: only the fresh one is left
C8_Witness ==
    /\ lastOp.op = "removeStaleVessels"
    /\ \E k \in DOMAIN lastOp.prev : ~Parsable(lastOp.prev[k])
    /\ vessels # EmptyMap

\* C9: for the map of any reachable state and any two instants t1 < t2, the
\* identifiers that survive a sweep at t2 are among those that survive a
\* sweep at t1.
C9_EvictionMonotone ==
    \A t1 \in ClockTimes, t2 \in ClockTimes :
        t1 < t2 =>
            DOMAIN removeStaleVessels(vessels, t2)
                \subseteq DOMAIN removeStaleVessels(vessels, t1)

\* a map that a sweep has just left non-empty and that a later sweep empties
C9_Witness ==
    /\ lastOp.op = "removeStaleVessels"
    /\ vessels # EmptyMap
    /\ \E t2 \in ClockTimes :
         /\ now < t2
         /\ DOMAIN removeStaleVessels(vessels, t2) = {}

\* map holds, for every identifier of list, the last record list has for it
WholeBatch(map, list) ==
    \A i \in 1..Len(list) :
        /\ list[i].mmsi \in DOMAIN map
        /\ map[list[i].mmsi] = list[Last(Positions(list, list[i].mmsi))]

\* C19: a Map a consumer obtained keeps the entries it had when it was
\* obtained through every later addVessel, updateVessel,
\* updateMultipleVessels, removeStaleVessels and clearAll, each of which hands
\* the state another object; an updateMultipleVessels is one such swap, so
\* the Map the state holds after it has the whole batch and the Map a
\* consumer held before it has what it had: no Map has a part of the batch.
C19_SnapshotsImmutable ==
    [][/\ snapshot'.object # "none" => snapshot'.entries = snapshot'.saw
       /\ (snapshot.object # "none" /\ lastOp'.op # "useVessels") =>
            /\ snapshot'.entries = snapshot.entries
            /\ vessels' # vessels => snapshot'.object = "old"
       /\ lastOp'.op = "updateMultipleVessels" =>
            /\ WholeBatch(vessels', lastOp'.list)
            /\ snapshot.object # "none" => snapshot'.entries = snapshot.saw
    ]_vars

\* a consumer took the Map when it held vessel 100 alone; a batch of two
\* records then replaced 100 and added 200: the state holds both new records
\* and the consumer's Map is what it was
C19_Witness ==
    /\ lastOp.op = "updateMultipleVessels"
    /\ Len(lastOp.list) = 2
    /\ {lastOp.list[1].mmsi, lastOp.list[2].mmsi} = MMSI
    /\ snapshot.object = "old"
    /\ DOMAIN snapshot.saw = {100}
    /\ snapshot.entries = snapshot.saw
    /\ DOMAIN vessels = MMSI
    /\ vessels[100] # snapshot.saw[100]
    /\ WholeBatch(vessels, lastOp.list)

-----------------------------------------------------------------------------
(* Properties of VesselMap *)

\* C1 as stated: whenever the controller is Inactive the store holds no
\* vessel and the cursor is null, also after a fetch that was in flight at the
\* Active to Inactive transition has resolved.
C1_InactiveStoreEmpty ==
    ~Active => (vessels = EmptyMap /\ lastServerTime = Null)

\* C2 as stated: the answer to a request that was issued before a request
\* whose answer has already been applied changes neither the cursor nor the
\* vessels.
C2_StaleAnswerIgnored ==
    [][(lastOp'.op = "fetchResolved" /\ lastOp'.superseded) =>
        (lastServerTime' = lastServerTime /\ vessels' = vessels)
    ]_vars

\* C3: after a fetch resolves the cursor is the server_time of that response,
\* whether or not the list is empty; an empty list leaves the map as it was
\* and a non-empty one is merged by identifier, the last record of an
\* identifier winning.
C3_CursorIsServerTime ==
    [][lastOp'.op = "fetchResolved" =>
        LET list == lastOp'.response.vessels IN
        /\ lastServerTime' = lastOp'.response.server_time
        /\ Len(list) = 0 => vessels' = vessels
        /\ DOMAIN vessels' =
             DOMAIN vessels \cup {list[i].mmsi : i \in 1..Len(list)}
        /\ \A k \in DOMAIN vessels' :
             vessels'[k] = IF Positions(list, k) # {}
                           THEN list[Last(Positions(list, k))]
                           ELSE vessels[k]
    ]_vars

\* an empty response has just been applied to a store that holds a vessel and
\* had another cursor when the request was sent
C3_Witness ==
    /\ lastOp.op = "fetchResolved"
    /\ lastOp.response.vessels = <<>>
    /\ lastServerTime = lastOp.response.server_time
    /\ vessels # EmptyMap
    /\ Active

\* C4: a rejected fetch leaves the vessels and the cursor as they were and
\* sets the error; it does not touch the interval, which stays armed while the
\* controller is Active, and every tick of the interval issues a fetch with
\* the current cursor.
C4_FailureLeavesStore ==
    [][/\ lastOp'.op = "fetchRejected" =>
            /\ vessels' = vessels
            /\ lastServerTime' = lastServerTime
            /\ error' = "Failed to fetch vessels"
            /\ intervals' = intervals
            /\ pollingIntervalRef' = pollingIntervalRef
            /\ Active' =>
                 /\ pollingIntervalRef' \in DOMAIN intervals'
                 /\ intervals'[pollingIntervalRef'].remaining
                      <= POLL_INTERVAL_MS
       /\ lastOp'.op = "tick" =>
            /\ Len(inflight') = Len(inflight) + 1
            /\ inflight'[Len(inflight')].since = lastServerTime
    ]_vars

\* a fetch has just failed while the controller is Active with a vessel in
\* the store and a cursor: the error shows and the interval is armed
C4_Witness ==
    /\ lastOp.op = "fetchRejected"
    /\ error = "Failed to fetch vessels"
    /\ Active
    /\ vessels # EmptyMap
    /\ lastServerTime # Null
    /\ pollingIntervalRef \in DOMAIN intervals

\* the requests a step issues: those in flight after it that were not in
\* flight before it (a step that applies an answer takes one away)
Issued ==
    Len(inflight') - Len(inflight)
        + (IF lastOp'.op \in {"fetchResolved", "fetchRejected"} THEN 1 ELSE 0)

\* C12 as stated: a region change committed while the controller is Active
\* and that leaves it Active only replaces the viewport: the interval is
\* neither cleared nor set again, so the next tick stays due when it was; the
\* vessels are not reset and the cursor stays.
C12_ViewportChangeKeepsTimer ==
    [][(lastOp'.op = "regionCommitted" /\ Active /\ Active') =>
        /\ pollingIntervalRef' = pollingIntervalRef
        /\ DOMAIN intervals' = DOMAIN intervals
        /\ \A id \in DOMAIN intervals :
             intervals'[id].remaining = intervals[id].remaining
        /\ vessels' = vessels
        /\ lastServerTime' = lastServerTime
    ]_vars

\* the map holds a vessel k whose age exceeds the stale timeout
Stale(k) ==
    /\ k \in DOMAIN vessels
    /\ Parsable(vessels[k])
    /\ Age(vessels[k], now) > STALE_VESSEL_TIMEOUT_MS

\* a region change is underway or has just been committed
ViewportChanging ==
    \/ handlers # <<>>
    \/ lastOp.op \in {"regionDidChange", "getVisibleBounds", "regionCommitted",
                       "regionIgnored"}

\* C13 as stated: while the controller stays Active and the viewport does not
\* change the interval keeps firing, also when every fetch succeeds and moves
\* the cursor, and each tick runs removeStaleVessels: a stale vessel of the
\* map is removed in the end (or the viewport changes first).
C13_StaleEventuallyEvicted ==
    \A k \in MMSI :
        (Active /\ ~ViewportChanging /\ Stale(k))
            ~> (~Stale(k) \/ ~Active \/ ViewportChanging)

\* C14 as stated: only a region change or a tick of the interval issues a
\* fetch; the step that applies the answer to a fetch, or its failure, issues
\* none, whether or not the cursor changes.
C14_CompletionIssuesNoFetch ==
    [][lastOp'.op \in {"fetchResolved", "fetchRejected"} => Issued = 0]_vars

\* C15 as stated: the first fetch issued when the controller becomes Active
\* again after it was Inactive carries no cursor, whatever fetches were in
\* flight in between; the cursor becomes null only by clearAll and non-null
\* only by the answer to a fetch that is still current (the controller is
\* Active and no later request has been answered).
C15_FreshStartAfterInactive ==
    [][/\ (~Active /\ Active') =>
            (Issued = 1 /\ inflight'[Len(inflight')].since = Null)
       /\ (lastServerTime # Null /\ lastServerTime' = Null) =>
            (lastOp'.op = "regionCommitted" /\ lastOp'.cleared)
       /\ (lastServerTime = Null /\ lastServerTime' # Null) =>
            (lastOp'.op = "fetchResolved" /\ ~lastOp'.superseded /\ Active)
    ]_vars

C17_ActivationFetchesOnce ==
    /\ (~Active /\ inflight = <<>> /\ DOMAIN intervals = {})
    /\ [][/\ Issued > 0 => Active'
          /\ (~Active /\ Active') =>
               /\ lastOp'.op = "regionCommitted"
               /\ Issued = 1
               /\ inflight'[Len(inflight')].since = lastServerTime'
               /\ DOMAIN intervals = {}
               /\ DOMAIN intervals' = {pollingIntervalRef'}
               /\ intervals'[pollingIntervalRef'].remaining = POLL_INTERVAL_MS
               /\ intervals'[pollingIntervalRef'].fetch =
                    fetchVesselsClosure(bbox', zoom', lastServerTime')
       ]_vars

\* the first region change at zoom 12 has just been committed: one request is
\* in flight, without cursor, and the interval is set a full period ahead
C17_Witness ==
    /\ lastOp.op = "regionCommitted"
    /\ ~lastOp.wasActive
    /\ Active
    /\ inflight = <<[since |-> Null, superseded |-> FALSE]>>
    /\ pollingIntervalRef \in DOMAIN intervals
    /\ intervals[pollingIntervalRef].remaining = POLL_INTERVAL_MS

\* C18: in every state the live intervals are exactly one when the
\* controller is Active, the one pollingIntervalRef holds, and none when it
\* is Inactive, whatever region changes, zoom changes and cursor changes
\* happened; its closure is the fetchVessels of the current render. No step
\* issues a fetch with the controller Inactive before or after it, but for
\* the region change that makes it Active.
C18_OneTimerIffActive ==
    /\ (~Active /\ DOMAIN intervals = {} /\ pollingIntervalRef = NoInterval)
    /\ [][/\ Cardinality(DOMAIN intervals') = IF Active' THEN 1 ELSE 0
          /\ DOMAIN intervals' = {pollingIntervalRef'} \ {NoInterval}
          /\ Active' =>
               intervals'[pollingIntervalRef'].fetch =
                   fetchVesselsClosure(bbox', zoom', lastServerTime')
          /\ Issued > 0 =>
               /\ Active'
               /\ Active \/ lastOp'.op = "regionCommitted"
       ]_vars

\* an Active controller after a region change that kept it Active and a
\* cursor change: one interval is live, the one the ref holds
C18_Witness ==
    /\ lastOp.op = "regionCommitted"
    /\ lastOp.wasActive
    /\ Active
    /\ lastServerTime # Null
    /\ Cardinality(DOMAIN intervals) = 1
    /\ DOMAIN intervals = {pollingIntervalRef}

\* C20 as stated: when the last of a set of overlapping handlers has
\* written its state and none is suspended, zoom and bbox are those of the
\* region the map shows, the most recent region change, both of that one
\* region, and the store was reset by that handler if and only if that zoom
\* is below the threshold (and is then empty, with a null cursor).
C20_LastViewportWins ==
    (/\ handlers = <<>>
     /\ lastOp.op = "regionCommitted"
     /\ lastOp.overlapped) =>
        /\ zoom = mapView.zoom
        /\ bbox = newBbox(mapView.bounds)
        /\ lastOp.cleared <=> mapView.zoom < MIN_ZOOM_LEVEL
        /\ mapView.zoom < MIN_ZOOM_LEVEL =>
             (vessels = EmptyMap /\ lastServerTime = Null)


\* the side of a precision-5 cell: 12 latitude bits and 13 longitude bits
CellSide == (180 * Degree) \div 4096

\* min <= max on both axes
WellFormed(b) == b[1] <= b[3] /\ b[2] <= b[4]

\* points of [min, max] no more than a cell side apart, both ends included:
\* every cell that meets the interval holds one of them
Probes(min, max) == loopValues(min, max, CellSide) \cup {max}

\* C10 as stated: on a well-formed rectangle at precision 5 the result holds
\* the identifier of every bucket that contains a point of the rectangle,
\* points of the max edges included.
C10_Covering ==
    (lastOp.op = "calculateGeohashes" /\ WellFormed(box)) =>
        \A lat \in Probes(box[2], box[4]), lon \in Probes(box[1], box[3]) :
            encodeGeohash(lat, lon, DefaultPrecision) \in geohashes

\* the rectangle is one point of the coordinate domain
SinglePoint(b) == b[1] = b[3] /\ b[2] = b[4] /\ inDomain(b[2], b[1])

\* C11: for a rectangle that is one point of the coordinate domain
\* (minLon = maxLon, minLat = maxLat) calculateGeohashes returns exactly one
\* hash, the geohash of that point at the precision asked for.
C11_SinglePoint ==
    (lastOp.op = "calculateGeohashes" /\ SinglePoint(box)) =>
        /\ Cardinality(geohashes) = 1
        /\ geohashes = {encodeGeohash(box[2], box[1], DefaultPrecision)}

\* calculateGeohashes(-122.4, 37.75, -122.4, 37.75) has returned ["9q8yy"]
C11_Witness ==
    /\ lastOp.op = "calculateGeohashes"
    /\ SinglePoint(box)
    /\ box[1] = -3133440 /\ box[2] = 966400
    /\ geohashes = {<<"9", "q", "8", "y", "y">>}

====
